---- MODULE Spec2Model ----
(***************************************************************************)
(* Dinitz's algorithm as the notebook content/algorithms/flow/dinitz_alg   *)
(* presents it: the helpers residual_graph and level_bfs, the augmenting   *)
(* path read off the BFS parents, and the driver loop of the section       *)
(* "Algorithm" (steps 1-6) with the cutoff of nx.flow.dinitz.              *)
(*                                                                         *)
(* A graph is a record [cap, adj]: cap maps each edge <<u, v>> of the      *)
(* graph to its "capacity" attribute, adj[u] lists the successors of u in  *)
(* insertion order (the order R.successors(u) iterates in).  A flow dict   *)
(* is a sequence of items <<edge, value>> in insertion order.              *)
(*                                                                         *)
(* T is the undirected graph of the notebook content/algorithms/euler: a   *)
(* set of nodes and a set of edges {u, v}, a self-loop being {v}; ret is    *)
(* the value a notebook function returned; vertex_stack, circuit and       *)
(* last_vertex are the variables of the eulerian_circuit loop.             *)
(***************************************************************************)
EXTENDS Integers, Sequences, FiniteSets, TLC

VARIABLES G, built, s, t, cutoff, R, flow, flow_value, parents, level, pc,
          T, ret, vertex_stack, circuit, last_vertex

vars == <<G, built, s, t, cutoff, R, flow, flow_value, parents, level, pc,
          T, ret, vertex_stack, circuit, last_vertex>>

\* The variables of the eulerian_circuit loop.
circuit_vars == <<vertex_stack, circuit, last_vertex>>

\* ---- bounds of the model ----
MaxCap == 2
MaxCutoff == 2
MaxEulerNodes == 4

\* The number of residual_graph applications in a row.
MaxCalls == 2

\* ---- the networks ----
Nodes == {"s", "a", "b", "c", "d", "t"}

\* cutoff=None: run to completion.
None == 0

\* The capacity choice of an edge the network does not have.
Absent == -1

\* G.edges order: nodes in insertion order, each node's successors in
\* insertion order.
EdgeOrder ==
  << <<"s", "a">>, <<"s", "c">>,
     <<"a", "d">>, <<"a", "b">>, <<"a", "s">>,
     <<"b", "t">>,
     <<"c", "d">>,
     <<"d", "t">>, <<"d", "a">>,
     <<"t", "b">> >>

\* Every network has the two paths s-a-d-t and s-a-b-t and the detour
\* s-c-d; a network may also have d->a, the antiparallel partner of a->d,
\* and the pair a->s (into the source) and t->b (out of the sink).
CapChoices(H, e) ==
  IF e \in { <<"s", "a">>, <<"a", "d">>, <<"b", "t">>, <<"c", "d">> } THEN 1..MaxCap
  ELSE IF e \in { <<"d", "a">>, <<"a", "s">> } THEN {Absent, 1}
  ELSE IF e = <<"t", "b">>
       THEN (IF <<"a", "s">> \in DOMAIN H.cap THEN {1} ELSE {Absent})
       ELSE 0..MaxCap

\* G.add_edge(u, v, capacity=c) for an edge the graph does not have yet.
add_edge(H, e, c) ==
  [cap |-> (e :> c) @@ H.cap,
   adj |-> [H.adj EXCEPT ![e[1]] = Append(@, e[2])]]

EdgesOf(H) == DOMAIN H.cap

Min(x, y) == IF x <= y THEN x ELSE y

\* The value of a set with one element: V({x}) is x, computed once.
V(S) == CHOOSE x \in S : TRUE

\* ---- residual_graph ----
\* residual_step without "H[u][v] -= f": the forward capacity is never used up.
residual_step_keeps_forward(H, e, f) ==
  LET u == e[1]
      v == e[2]
  IN IF <<v, u>> \in DOMAIN H.cap
     THEN [cap |-> [H.cap EXCEPT ![<<v, u>>] = @ + f], adj |-> H.adj]
     ELSE add_edge(H, <<v, u>>, f)

\* residual_step without "H[v][u] += f": an existing reverse edge gains nothing.
residual_step_no_reverse(H, e, f) ==
  LET u == e[1]
      v == e[2]
      c1 == [H.cap EXCEPT ![<<u, v>>] = @ - f]
  IN IF <<v, u>> \in DOMAIN c1
     THEN [cap |-> c1, adj |-> H.adj]
     ELSE add_edge([cap |-> c1, adj |-> H.adj], <<v, u>>, f)

\* One iteration of the for loop: H[u][v] -= f, then H[v][u] += f or add_edge.
residual_step(H, e, f) ==
  LET u == e[1]
      v == e[2]
      c1 == [H.cap EXCEPT ![<<u, v>>] = @ - f]
  IN IF <<v, u>> \in DOMAIN c1
     THEN [cap |-> [c1 EXCEPT ![<<v, u>>] = @ + f], adj |-> H.adj]
     ELSE add_edge([cap |-> c1, adj |-> H.adj], <<v, u>>, f)

RECURSIVE residual_loop(_, _)
residual_loop(H0, fl) ==
  IF fl = <<>> THEN H0
  ELSE V({ residual_loop(residual_step(H, Head(fl)[1], Head(fl)[2]), Tail(fl))
           : H \in {H0} })

\* residual_graph(G, flow): works on a copy H of G0; raises ValueError when
\* an item exceeds the capacity of its edge in G0.
residual_graph(G0, fl) ==
  IF \E i \in 1..Len(fl) : fl[i][2] > G0.cap[fl[i][1]]
  THEN [error |-> "ValueError", H |-> G0]
  ELSE [error |-> "none", H |-> residual_loop(G0, fl)]

\* ---- level_bfs ----
\* bfs_successors without the test R[u][v]["capacity"] > 0.
RECURSIVE bfs_successors_any_capacity(_, _, _, _)
bfs_successors_any_capacity(R0, u, succs, st0) ==
  IF succs = <<>> THEN st0
  ELSE V({ LET v == Head(succs)
           IN IF v \notin DOMAIN st.parents
              THEN bfs_successors_any_capacity(R0, u, Tail(succs),
                     [parents |-> (v :> u) @@ st.parents,
                      level   |-> (v :> (st.level[u] + 1)) @@ st.level,
                      queue   |-> Append(st.queue, v)])
              ELSE bfs_successors_any_capacity(R0, u, Tail(succs), st)
           : st \in {st0} })

\* The for loop over R.successors(u): st = [parents, level, queue].
RECURSIVE bfs_successors(_, _, _, _)
bfs_successors(R0, u, succs, st0) ==
  IF succs = <<>> THEN st0
  ELSE V({ LET v == Head(succs)
           IN IF (v \notin DOMAIN st.parents) /\ (R0.cap[<<u, v>>] > 0)
              THEN bfs_successors(R0, u, Tail(succs),
                     [parents |-> (v :> u) @@ st.parents,
                      level   |-> (v :> (st.level[u] + 1)) @@ st.level,
                      queue   |-> Append(st.queue, v)])
              ELSE bfs_successors(R0, u, Tail(succs), st)
           : st \in {st0} })

\* The while loop: stops on an empty queue or once target_node has a parent.
RECURSIVE bfs_while(_, _, _)
bfs_while(R0, st0, target_node) ==
  V({ IF st.queue = <<>> \/ target_node \in DOMAIN st.parents THEN st
      ELSE LET u == Head(st.queue)
           IN bfs_while(R0,
                bfs_successors(R0, u, R0.adj[u], [st EXCEPT !.queue = Tail(@)]),
                target_node)
      : st \in {st0} })

EmptyMap == [x \in {} |-> 0]

\* level_bfs(R, flow, source_node, target_node); the flow argument is unused.
level_bfs(R0, source_node, target_node) ==
  LET st == bfs_while(R0,
              [parents |-> EmptyMap,
               level   |-> (source_node :> 0),
               queue   |-> <<source_node>>],
              target_node)
  IN [parents |-> st.parents, level |-> st.level]

\* ---- the augmenting path of the level network ----
\* The walk of aug_path_dfs from target_node along parents to source_node:
\* path = [target_node, ..., source_node].
RECURSIVE parent_path(_, _, _)
parent_path(par, u, source_node) ==
  IF u = source_node THEN <<source_node>>
  ELSE <<u>> \o parent_path(par, par[u], source_node)

\* pairwise(path) cut short by one pair: the edge leaving the source is lost.
PathEdges_short(path) == [i \in 1..(Len(path) - 2) |-> <<path[i + 1], path[i]>>]

\* The edges (v, u) for u, v in pairwise(path), in that order.
PathEdges(path) == [i \in 1..(Len(path) - 1) |-> <<path[i + 1], path[i]>>]

RECURSIVE MinOver(_, _)
MinOver(R0, edges) ==
  IF Len(edges) = 1 THEN R0.cap[edges[1]]
  ELSE Min(R0.cap[edges[1]], MinOver(R0, Tail(edges)))

\* The augmenting flow alpha = min{g_uv, uv in P}.
augmenting_flow(R0, path) == V({ MinOver(R0, edges) : edges \in {PathEdges(path)} })

\* aug_flow that sends one unit less over the edge into the sink.
aug_flow_of_less_at_sink(path, alpha) ==
  V({ [i \in 1..Len(edges) |-> <<edges[i], IF i = 1 THEN alpha - 1 ELSE alpha>>]
      : edges \in {PathEdges(path)} })

\* aug_flow = {(v, u): min_resid_flow for u, v in pairwise(path)}
aug_flow_of(path, alpha) ==
  V({ [i \in 1..Len(edges) |-> <<edges[i], alpha>>] : edges \in {PathEdges(path)} })

\* ---- the flow of the original network ----
\* Augmenting the flow f of G by alpha along the residual edge (u, v): flow
\* on the original edge (v, u) is taken back first, the rest is sent on the
\* original edge (u, v).
augment_edge(G0, f, e, alpha) ==
  LET u == e[1]
      v == e[2]
      back == IF <<v, u>> \in DOMAIN G0.cap THEN Min(alpha, f[<<v, u>>]) ELSE 0
      f1 == IF back > 0 THEN [f EXCEPT ![<<v, u>>] = @ - back] ELSE f
  IN IF alpha - back > 0 THEN [f1 EXCEPT ![<<u, v>>] = @ + (alpha - back)] ELSE f1

RECURSIVE augment_flow(_, _, _)
augment_flow(G0, f0, fl) ==
  IF fl = <<>> THEN f0
  ELSE V({ augment_flow(G0, augment_edge(G0, f, Head(fl)[1], Head(fl)[2]), Tail(fl))
           : f \in {f0} })

\* Step 1: the zero flow, a flow dict without items (an edge that is no key
\* of a flow dict carries no flow).
zero_flow == <<>>

\* ---- the driver: steps 1-6 of "Algorithm", with the cutoff ----
Cutoffs == {None} \cup (1..MaxCutoff)

\* nx.Graph(): no nodes, no edges.
NoT == [nodes |-> {}, edges |-> {}]

\* A graph without edges.
NoGraph == [cap |-> EmptyMap, adj |-> [u \in Nodes |-> <<>>]]

Init ==
  /\ G = NoGraph
  /\ built = 0
  /\ s = "s"
  /\ t = "t"
  /\ cutoff = None
  /\ R = NoGraph
  /\ flow = EmptyMap
  /\ flow_value = 0
  /\ parents = EmptyMap
  /\ level = EmptyMap
  /\ pc = "build"
  /\ T = NoT
  /\ ret = None
  /\ vertex_stack = <<>>
  /\ circuit = <<>>
  /\ last_vertex = None

\* The network is put together edge by edge, in the order of EdgeOrder.
AddEdge ==
  /\ pc = "build"
  /\ built < Len(EdgeOrder)
  /\ \E c \in CapChoices(G, EdgeOrder[built + 1]) :
       G' = IF c = Absent THEN G ELSE add_edge(G, EdgeOrder[built + 1], c)
  /\ built' = built + 1
  /\ UNCHANGED <<s, t, cutoff, R, flow, flow_value, parents, level, pc, T, ret>>
  /\ UNCHANGED circuit_vars

\* The call on the network G with a cutoff c, and steps 1 and 2: the zero
\* flow and its residual network.
Call ==
  /\ pc = "build"
  /\ built = Len(EdgeOrder)
  /\ cutoff' \in Cutoffs
  /\ R' = residual_graph(G, zero_flow).H
  /\ flow' = [e \in EdgesOf(G) |-> 0]
  /\ flow_value' = 0
  /\ pc' = "level"
  /\ UNCHANGED <<G, built, s, t, parents, level, T, ret>>
  /\ UNCHANGED circuit_vars

\* Step 3: find the level network; if t is not in it, output the flow.
BuildLevel ==
  /\ pc = "level"
  /\ \E r \in {level_bfs(R, s, t)} :
       /\ parents' = r.parents
       /\ level' = r.level
       /\ pc' = IF t \in DOMAIN r.parents THEN "augment" ELSE "done"
  /\ UNCHANGED <<G, built, s, t, cutoff, R, flow, flow_value, T, ret>>
  /\ UNCHANGED circuit_vars

\* The cutoff test with "exceeds" for "is reached".
cutoff_exceeded(value, c) == c # None /\ value > c

\* The test that ends the iterations once the desired flow value is reached.
cutoff_reached(value, c) == c # None /\ value >= c

\* Augment on a residual network that is the input graph itself (no
\* G.copy()): the update of R is an update of G.
Augment_in_place ==
  /\ pc = "augment"
  /\ \E path \in {parent_path(parents, t, s)} :
     \E alpha \in {augmenting_flow(R, path)} :
     \E aug_flow \in {aug_flow_of(path, alpha)} :
     \E res \in {residual_graph(R, aug_flow)} :
       /\ res.error = "none"
       /\ R' = res.H
       /\ G' = res.H
       /\ flow' = flow
       /\ flow_value' = flow_value + alpha
       /\ pc' = IF cutoff_reached(flow_value + alpha, cutoff)
                THEN "done" ELSE "level"
  /\ UNCHANGED <<built, s, t, cutoff, parents, level, T, ret>>
  /\ UNCHANGED circuit_vars

\* Steps 4 to 6: an augmenting path in the level network, the flow augmented
\* along it, the new residual network; then the cutoff test.
Augment ==
  /\ pc = "augment"
  /\ \E path \in {parent_path(parents, t, s)} :
     \E alpha \in {augmenting_flow(R, path)} :
     \E aug_flow \in {aug_flow_of(path, alpha)} :
     \E res \in {residual_graph(R, aug_flow)} :
       IF res.error # "none"
       THEN /\ pc' = "ValueError"
            /\ UNCHANGED <<R, flow, flow_value>>
       ELSE /\ R' = res.H
            /\ flow' = augment_flow(G, flow, aug_flow)
            /\ flow_value' = flow_value + alpha
            /\ pc' = IF cutoff_reached(flow_value + alpha, cutoff)
                     THEN "done" ELSE "level"
  /\ UNCHANGED <<G, built, s, t, cutoff, parents, level, T, ret>>
  /\ UNCHANGED circuit_vars

Next == AddEdge \/ Call \/ BuildLevel \/ Augment

Spec == Init /\ [][Next]_vars

\* The run is one sequential program: it takes its next step whenever it has
\* one.
FairSpec == Spec /\ WF_vars(Next)

\* ---- aug_path_dfs ----
\* flow.get(e, 0)
FlowGet(fl, e) == IF e \in DOMAIN fl THEN fl[e] ELSE 0

\* max(flow.values()) of a flow dict with at least one item.
MaxValue(fl) ==
  CHOOSE m \in { fl[e] : e \in DOMAIN fl } : \A e \in DOMAIN fl : fl[e] <= m

\* The while loop from u on: path.append(u); v = parents[u];
\* f = min(f, R.pred[u][v]["capacity"] - flow.get((u, v), 0)); u = v.
\* R.pred[u][v] is the data of the edge (v, u) of R.
RECURSIVE aug_path_walk(_, _, _, _, _, _)
aug_path_walk(R0, par, fl, u, source_node, f) ==
  IF u = source_node THEN [path |-> <<source_node>>, f |-> f]
  ELSE LET v == par[u]
           r == aug_path_walk(R0, par, fl, v, source_node,
                  Min(f, R0.cap[<<v, u>>] - FlowGet(fl, <<u, v>>)))
       IN [path |-> <<u>> \o r.path, f |-> r.f]

\* aug_path_dfs(parents, flow, source_node, target_node), which reads the
\* residual network from the global R; max() of no values raises ValueError.
aug_path_dfs(R0, par, fl, source_node, target_node) ==
  IF DOMAIN fl = {} THEN [error |-> "ValueError", path |-> <<>>, f |-> 0]
  ELSE LET r == aug_path_walk(R0, par, fl, target_node, source_node,
                  3 * MaxValue(fl))
       IN [error |-> "none", path |-> r.path, f |-> r.f]

\* path, min_resid_flow = aug_path_dfs(parents, example_flow, "s", "t") on a
\* flow, its residual network R and the parents of level_bfs.
AugPathDfs ==
  /\ pc = "augment"
  /\ ret' = aug_path_dfs(R, parents, flow, s, t)
  /\ pc' = "path"
  /\ UNCHANGED <<G, built, s, t, cutoff, R, flow, flow_value, parents, level, T>>
  /\ UNCHANGED circuit_vars

\* The flows of the runs, each with its residual network and level network,
\* as the inputs of aug_path_dfs.
PathNext == Next \/ AugPathDfs

PathSpec == Init /\ [][PathNext]_vars

\* ---- the Algorithm's steps with the notebook's own functions ----
\* Steps 1 and 2 from the zero flow on the edges of G.
NotebookCall ==
  /\ pc = "build"
  /\ built = Len(EdgeOrder)
  /\ R' = residual_graph(G, zero_flow).H
  /\ flow' = [e \in EdgesOf(G) |-> 0]
  /\ flow_value' = 0
  /\ pc' = "level"
  /\ UNCHANGED <<G, built, s, t, cutoff, parents, level, T, ret>>
  /\ UNCHANGED circuit_vars

\* Steps 4 to 6 with path, min_resid_flow = aug_path_dfs(parents, flow, s, t),
\* aug_flow = {(v, u): min_resid_flow ...} and R = residual_graph(R, aug_flow).
NotebookAugment ==
  /\ pc = "augment"
  /\ \E r \in {aug_path_dfs(R, parents, flow, s, t)} :
       IF r.error # "none"
       THEN /\ pc' = "ValueError"
            /\ UNCHANGED <<R, flow, flow_value>>
       ELSE \E aug_flow \in {aug_flow_of(r.path, r.f)} :
            \E res \in {residual_graph(R, aug_flow)} :
              IF res.error # "none"
              THEN /\ pc' = "ValueError"
                   /\ UNCHANGED <<R, flow, flow_value>>
              ELSE /\ R' = res.H
                   /\ flow' = augment_flow(G, flow, aug_flow)
                   /\ flow_value' = flow_value + r.f
                   /\ pc' = "level"
  /\ UNCHANGED <<G, built, s, t, cutoff, parents, level, T, ret>>
  /\ UNCHANGED circuit_vars

NotebookNext == AddEdge \/ NotebookCall \/ BuildLevel \/ NotebookAugment

NotebookSpec == Init /\ [][NotebookNext]_vars

\* The loop goes on for as long as a step is there to take.
NotebookFairSpec == NotebookSpec /\ WF_vars(NotebookNext)

\* ---- the example networks ----
\* Example 2: s->a cap 10, a->t cap 5, s->b cap 5, b->t cap 10; Example 1 is
\* its part s->a, a->t.
Example2Cap ==
  (<<"s", "a">> :> 10) @@ (<<"a", "t">> :> 5) @@
  (<<"s", "b">> :> 5) @@ (<<"b", "t">> :> 10)

Example1Edges == { <<"s", "a">>, <<"a", "t">> }

Example2Edges == DOMAIN Example2Cap

\* The cutoffs tried on the examples: none, and every value up to MaxCutoff
\* above the larger example's flow value.
ExampleCutoffs == {None} \cup (1..(10 + MaxCutoff))

\* An example network is put together edge by edge, in any order.
AddExampleEdge ==
  /\ pc = "build"
  /\ \E e \in Example2Edges \ EdgesOf(G) : G' = add_edge(G, e, Example2Cap[e])
  /\ built' = built + 1
  /\ UNCHANGED <<s, t, cutoff, R, flow, flow_value, parents, level, pc, T, ret>>
  /\ UNCHANGED circuit_vars

\* The call on an example network, and steps 1 and 2.
CallExample ==
  /\ pc = "build"
  /\ EdgesOf(G) \in {Example1Edges, Example2Edges}
  /\ cutoff' \in ExampleCutoffs
  /\ R' = residual_graph(G, zero_flow).H
  /\ flow' = [e \in EdgesOf(G) |-> 0]
  /\ flow_value' = 0
  /\ pc' = "level"
  /\ UNCHANGED <<G, built, s, t, parents, level, T, ret>>
  /\ UNCHANGED circuit_vars

ExampleNext == AddExampleEdge \/ CallExample \/ BuildLevel \/ Augment

ExampleSpec == Init /\ [][ExampleNext]_vars

\* ---- a whole run as a value ----
\* Steps 3 to 6 repeated on the residual network R0 with the flow value
\* accumulated so far; the result is the flow value the run returns.
RECURSIVE dinitz_loop(_, _, _, _, _)
dinitz_loop(R0, value, s0, t0, c) ==
  LET r == V({ level_bfs(R0, s0, t0) })
  IN IF t0 \notin DOMAIN r.parents THEN value
     ELSE LET path == parent_path(r.parents, t0, s0)
              alpha == augmenting_flow(R0, path)
              res == residual_graph(R0, aug_flow_of(path, alpha))
          IN IF res.error # "none" THEN value
             ELSE IF cutoff_reached(value + alpha, c) THEN value + alpha
             ELSE dinitz_loop(res.H, value + alpha, s0, t0, c)

\* nx.flow.dinitz(G, s, t, cutoff=c): steps 1 and 2, then the loop.
dinitz(G0, s0, t0, c) ==
  dinitz_loop(residual_graph(G0, zero_flow).H, 0, s0, t0, c)

\* ---- cuts ----
RECURSIVE SumCap(_, _)
SumCap(c, E) ==
  IF E = {} THEN 0
  ELSE LET e == CHOOSE x \in E : TRUE IN c[e] + SumCap(c, E \ {e})

\* The cuts separating s from t, each given by its source side.
Cuts == { S \in SUBSET Nodes : s \in S /\ t \notin S }

CutCapacity(S) ==
  SumCap(G.cap, { e \in EdgesOf(G) : e[1] \in S /\ e[2] \notin S })

MinCutCapacity ==
  CHOOSE m \in { CutCapacity(S) : S \in Cuts } :
    \A S \in Cuts : m <= CutCapacity(S)

Inflow(v) == SumCap(flow, { e \in EdgesOf(G) : e[2] = v })

Outflow(v) == SumCap(flow, { e \in EdgesOf(G) : e[1] = v })

TypeOK ==
  /\ pc \in {"build", "level", "augment", "done", "ValueError"}
  /\ flow_value \in Nat
  /\ pc # "build" => DOMAIN flow = EdgesOf(G)

\* ---- level_bfs on a residual network of its own ----
\* The edges of the residual network, in R.edges order.
LevelEdgeOrder ==
  << <<"s", "a">>, <<"s", "c">>,
     <<"a", "t">>, <<"a", "s">>,
     <<"c", "d">>, <<"c", "a">>,
     <<"d", "t">> >>

\* An edge is absent, or has no residual capacity left, or has some.
AddLevelEdge ==
  /\ pc = "build"
  /\ built < Len(LevelEdgeOrder)
  /\ \E c \in {Absent, 0, MaxCap} :
       R' = IF c = Absent THEN R ELSE add_edge(R, LevelEdgeOrder[built + 1], c)
  /\ built' = built + 1
  /\ UNCHANGED <<G, s, t, cutoff, flow, flow_value, parents, level, pc, T, ret>>
  /\ UNCHANGED circuit_vars

\* parents, level = level_bfs(R, flow, "s", "t")
LevelBfs ==
  /\ pc = "build"
  /\ built = Len(LevelEdgeOrder)
  /\ \E r \in {level_bfs(R, s, t)} :
       /\ parents' = r.parents
       /\ level' = r.level
  /\ pc' = "levelled"
  /\ UNCHANGED <<G, built, s, t, cutoff, R, flow, flow_value, T, ret>>
  /\ UNCHANGED circuit_vars

LevelNext == AddLevelEdge \/ LevelBfs

LevelSpec == Init /\ [][LevelNext]_vars

\* ---- residual_graph applied to flow dicts ----
\* An edge (s, a) and, possibly, its reverse.
ResidualEdgeOrder == << <<"s", "a">>, <<"a", "s">> >>

\* The flow dicts on edges of H, with entries below 0 and above MaxCap too.
ResidualFlowDicts(H) ==
  UNION { [D -> (-1)..(MaxCap + 1)] : D \in SUBSET EdgesOf(H) }

\* flow.items()
flow_items(fl) ==
  LET keys == SelectSeq(ResidualEdgeOrder, LAMBDA e : e \in DOMAIN fl)
  IN [i \in 1..Len(keys) |-> <<keys[i], fl[keys[i]]>>]

\* G with non-negative capacities; R names the graph the next application
\* of residual_graph takes, which is G at first.
AddResidualEdge ==
  /\ pc = "build"
  /\ built < Len(ResidualEdgeOrder)
  /\ \E c \in {Absent} \cup (0..MaxCap) :
       /\ (built = 0 => c # Absent)
       /\ G' = IF c = Absent THEN G
               ELSE add_edge(G, ResidualEdgeOrder[built + 1], c)
       /\ R' = G'
  /\ built' = built + 1
  /\ UNCHANGED <<s, t, cutoff, flow, flow_value, parents, level, pc, T, ret>>
  /\ UNCHANGED circuit_vars

\* R = residual_graph(R, flow) with H the graph R itself, not a copy of it:
\* the graph that was passed in is updated.
ResidualGraph_in_place ==
  /\ pc \in {"build", "residual"}
  /\ built = Len(ResidualEdgeOrder)
  /\ pc = "residual" => (ret.error = "none" /\ ret.calls < MaxCalls)
  /\ \E fl \in ResidualFlowDicts(R) :
     \E res \in {residual_graph(R, flow_items(fl))} :
       /\ flow' = fl
       /\ R' = IF res.error = "none" THEN res.H ELSE R
       /\ G' = IF pc = "build" THEN residual_loop(G, flow_items(fl)) ELSE G
       /\ ret' = [error |-> res.error,
                  calls |-> IF pc = "build" THEN 1 ELSE ret.calls + 1]
  /\ pc' = "residual"
  /\ UNCHANGED <<built, s, t, cutoff, flow_value, parents, level, T>>
  /\ UNCHANGED circuit_vars

\* R = residual_graph(R, flow) for any flow dict on R's edges; a ValueError
\* ends the sequence of applications.
ResidualGraph ==
  /\ pc \in {"build", "residual"}
  /\ built = Len(ResidualEdgeOrder)
  /\ pc = "residual" => (ret.error = "none" /\ ret.calls < MaxCalls)
  /\ \E fl \in ResidualFlowDicts(R) :
     \E res \in {residual_graph(R, flow_items(fl))} :
       /\ flow' = fl
       /\ R' = IF res.error = "none" THEN res.H ELSE R
       /\ ret' = [error |-> res.error,
                  calls |-> IF pc = "build" THEN 1 ELSE ret.calls + 1]
  /\ pc' = "residual"
  /\ UNCHANGED <<G, built, s, t, cutoff, flow_value, parents, level, T>>
  /\ UNCHANGED circuit_vars

ResidualNext == AddResidualEdge \/ ResidualGraph

ResidualSpec == Init /\ [][ResidualNext]_vars

\* ---- check_valid_flow ----
\* A flow dict here is a function from its keys, edges of G, to flow values.
\* incoming_flow and outgoing_flow of v: the sums over G.predecessors(v)
\* and G.successors(v) of the flow of the edges that are keys of the dict.
incoming_flow(G0, fl, v) ==
  SumCap(fl, { e \in EdgesOf(G0) \cap DOMAIN fl : e[2] = v })

outgoing_flow(G0, fl, v) ==
  SumCap(fl, { e \in EdgesOf(G0) \cap DOMAIN fl : e[1] = v })

\* The loop over flow.items(): the edge (u, v) is marked red when f exceeds
\* its capacity; the node v, the head of the item's edge, is marked red when
\* it is neither terminal and its incoming and outgoing flow differ.
check_valid_flow(G0, fl, source_node, target_node) ==
  [red_edges |-> { e \in DOMAIN fl : fl[e] > G0.cap[e] },
   red_nodes |-> { e[2] : e \in { x \in DOMAIN fl :
                     /\ x[2] \notin {source_node, target_node}
                     /\ incoming_flow(G0, fl, x[2]) # outgoing_flow(G0, fl, x[2]) } }]

\* The network the flows are checked on, in G.edges order.
CheckEdgeOrder ==
  << <<"s", "a">>, <<"a", "b">>, <<"a", "t">>, <<"b", "t">> >>

\* The flow dicts over edges of G0: any keys, values up to above capacity.
FlowDicts(G0) ==
  UNION { [D -> 0..(MaxCap + 1)] : D \in SUBSET EdgesOf(G0) }

AddCheckEdge ==
  /\ pc = "build"
  /\ built < Len(CheckEdgeOrder)
  /\ \E c \in 1..MaxCap : G' = add_edge(G, CheckEdgeOrder[built + 1], c)
  /\ built' = built + 1
  /\ UNCHANGED <<s, t, cutoff, R, flow, flow_value, parents, level, pc, T, ret>>
  /\ UNCHANGED circuit_vars

\* flow_graph = check_valid_flow(G, example_flow, "s", "t")
CheckValidFlow ==
  /\ pc = "build"
  /\ built = Len(CheckEdgeOrder)
  /\ \E fl \in FlowDicts(G) :
       /\ flow' = fl
       /\ ret' = check_valid_flow(G, fl, s, t)
  /\ pc' = "checked"
  /\ UNCHANGED <<G, built, s, t, cutoff, R, flow_value, parents, level, T>>
  /\ UNCHANGED circuit_vars

CheckNext == AddCheckEdge \/ CheckValidFlow

CheckSpec == Init /\ [][CheckNext]_vars

\* ---- the euler notebook ----
EulerNodes == 1..MaxEulerNodes

\* G.degree(v): the edges at v, a self-loop counted twice.
degree(T0, v) ==
  Cardinality({ e \in T0.edges : v \in e /\ e # {v} })
    + 2 * Cardinality({ e \in T0.edges : e = {v} })

\* The nodes an undirected path reaches from S.
RECURSIVE component(_, _)
component(T0, S) ==
  LET N == S \cup UNION { e \in T0.edges : e \cap S # {} }
  IN IF N = S THEN S ELSE component(T0, N)

\* nx.is_connected(G), for a graph with at least one node: all of its
\* vertices belong to a single connected component.
is_connected(T0) ==
  component(T0, { CHOOSE v \in T0.nodes : TRUE }) = T0.nodes

\* is_eulerian, undirected branch.
is_eulerian(T0) ==
  (\A v \in T0.nodes : degree(T0, v) % 2 = 0) /\ is_connected(T0)

\* has_eulerian_path without the first test "if nx.is_eulerian(G)".
has_eulerian_path_semi_only(T0, source) ==
  IF source # None /\ degree(T0, source) % 2 # 1 THEN FALSE
  ELSE /\ Cardinality({ v \in T0.nodes : degree(T0, v) % 2 = 1 }) = 2
       /\ is_connected(T0)

\* has_eulerian_path(G, source=None), undirected branch.
has_eulerian_path(T0, source) ==
  IF is_eulerian(T0) THEN TRUE
  ELSE IF source # None /\ degree(T0, source) % 2 # 1 THEN FALSE
  ELSE /\ Cardinality({ v \in T0.nodes : degree(T0, v) % 2 = 1 }) = 2
       /\ is_connected(T0)

\* T.add_node(v)
AddNodeT ==
  /\ pc = "build"
  /\ \E v \in EulerNodes \ T.nodes : T' = [T EXCEPT !.nodes = @ \cup {v}]
  /\ UNCHANGED <<G, built, s, t, cutoff, R, flow, flow_value, parents, level,
                 pc, ret>>
  /\ UNCHANGED circuit_vars

\* T.add_edge(u, v): the edge and both its ends.
AddEdgeT ==
  /\ pc = "build"
  /\ \E u, v \in EulerNodes :
       /\ {u, v} \notin T.edges
       /\ T' = [nodes |-> T.nodes \cup {u, v}, edges |-> T.edges \cup {{u, v}}]
  /\ UNCHANGED <<G, built, s, t, cutoff, R, flow, flow_value, parents, level,
                 pc, ret>>
  /\ UNCHANGED circuit_vars

\* nx.has_eulerian_path(T)
HasEulerianPath ==
  /\ pc = "build"
  /\ T.nodes # {}
  /\ ret' = has_eulerian_path(T, None)
  /\ pc' = "returned"
  /\ UNCHANGED <<G, built, s, t, cutoff, R, flow, flow_value, parents, level, T>>
  /\ UNCHANGED circuit_vars

EulerNext == AddNodeT \/ AddEdgeT \/ HasEulerianPath

EulerSpec == Init /\ [][EulerNext]_vars

\* ---- the eulerian_circuit loop ----
\* The edges a graph is put together from, in the order they are added;
\* G.edges(v) lists the edges at v in this order.
CircuitEdgeOrder ==
  << <<1, 2>>, <<2, 3>>, <<3, 1>>, <<2, 4>>, <<4, 5>>, <<5, 2>>, <<3, 4>>,
     <<1, 4>> >>

\* T.add_edge(u, v) for the next edge of CircuitEdgeOrder, or not.
AddCircuitEdge ==
  /\ pc = "build"
  /\ built < Len(CircuitEdgeOrder)
  /\ \E present \in BOOLEAN :
       T' = IF present
            THEN LET e == CircuitEdgeOrder[built + 1]
                 IN [nodes |-> T.nodes \cup {e[1], e[2]},
                     edges |-> T.edges \cup {{e[1], e[2]}}]
            ELSE T
  /\ built' = built + 1
  /\ UNCHANGED <<G, s, t, cutoff, R, flow, flow_value, parents, level, pc, ret>>
  /\ UNCHANGED circuit_vars

\* _, next_vertex = next(iter(G.edges(current_vertex)))
next_vertex_of(T0, current_vertex) ==
  LET at(i) == /\ {CircuitEdgeOrder[i][1], CircuitEdgeOrder[i][2]} \in T0.edges
               /\ current_vertex \in {CircuitEdgeOrder[i][1], CircuitEdgeOrder[i][2]}
      i == CHOOSE i \in 1..Len(CircuitEdgeOrder) :
             at(i) /\ \A j \in 1..(i - 1) : ~at(j)
      e == CircuitEdgeOrder[i]
  IN IF e[1] = current_vertex THEN e[2] ELSE e[1]

\* vertex_stack = [0]; last_vertex = None, on a connected graph with all
\* degrees even; the source vertex is the graph's node 1.
EulerianCircuit ==
  /\ pc = "build"
  /\ built = Len(CircuitEdgeOrder)
  /\ 1 \in T.nodes
  /\ is_eulerian(T)
  /\ circuit' = <<>>
  /\ vertex_stack' = <<1>>
  /\ last_vertex' = None
  /\ pc' = "circuit"
  /\ UNCHANGED <<G, built, s, t, cutoff, R, flow, flow_value, parents, level,
                 T, ret>>

\* One iteration of "while vertex_stack"; the loop is left by the break or
\* with an empty stack.
CircuitStep ==
  /\ pc = "circuit"
  /\ vertex_stack # <<>>
  /\ LET current_vertex == vertex_stack[Len(vertex_stack)]
     IN /\ circuit' = Append(circuit, current_vertex)
        /\ IF degree(T, current_vertex) = 0
           THEN IF last_vertex # None
                THEN /\ pc' = "circuit done"
                     /\ UNCHANGED <<vertex_stack, last_vertex, T>>
                ELSE /\ last_vertex' = current_vertex
                     /\ vertex_stack' = SubSeq(vertex_stack, 1, Len(vertex_stack) - 1)
                     /\ pc' = IF Len(vertex_stack) = 1 THEN "circuit done"
                              ELSE "circuit"
                     /\ UNCHANGED T
           ELSE \E next_vertex \in {next_vertex_of(T, current_vertex)} :
                  /\ vertex_stack' = Append(vertex_stack, next_vertex)
                  /\ T' = [T EXCEPT !.edges = @ \ {{current_vertex, next_vertex}}]
                  /\ pc' = "circuit"
                  /\ UNCHANGED last_vertex
  /\ UNCHANGED <<G, built, s, t, cutoff, R, flow, flow_value, parents, level, ret>>

CircuitNext == AddCircuitEdge \/ EulerianCircuit \/ CircuitStep

CircuitSpec == Init /\ [][CircuitNext]_vars

\* The loop runs on while it has an iteration to make.
CircuitFairSpec == CircuitSpec /\ WF_vars(CircuitNext)

\* ---- the claims ----
\* The states of a run: the call has been made.
InRun == pc # "build"

Capacity_constraint == \A e \in EdgesOf(G) : 0 <= flow[e] /\ flow[e] <= G.cap[e]

Conservation_of_flow == \A v \in Nodes \ {s, t} : Inflow(v) = Outflow(v)

\* Flow was sent over a->d and taken back again over the reverse edge d->a.
Rerouted ==
  /\ InRun
  /\ <<"d", "a">> \notin EdgesOf(G)
  /\ flow[<<"a", "d">>] < G.cap[<<"a", "d">>]
  /\ flow[<<"c", "d">>] > 0
  /\ flow[<<"a", "b">>] > 0
  /\ flow[<<"d", "t">>] = G.cap[<<"d", "t">>]
  /\ flow[<<"d", "t">>] = flow[<<"c", "d">>] + flow[<<"a", "d">>]

C5_WeakDuality == InRun => \A S \in Cuts : flow_value <= CutCapacity(S)

C5_Witness ==
  /\ InRun
  /\ cutoff # None
  /\ flow_value > 0
  /\ \E S \in Cuts : flow_value = CutCapacity(S)
  /\ \E S \in Cuts : flow_value < CutCapacity(S)

RECURSIVE ReachFrom(_, _)
ReachFrom(H, S) ==
  LET N == S \cup { e[2] : e \in { x \in EdgesOf(H) : x[1] \in S /\ H.cap[x] > 0 } }
  IN IF N = S THEN S ELSE ReachFrom(H, N)

\* No path of positive-capacity edges leads from source to sink.
NoPath == t \notin ReachFrom(G, {s})

\* C14: when no path of positive-capacity edges leads from source to sink,
\* the run builds one level graph and stops there without any augmentation:
\* flow_value is 0, no edge carries flow, the residual network is untouched.
C14_Disconnected ==
  /\ []((InRun /\ NoPath) =>
         /\ pc \in {"level", "done"}
         /\ flow_value = 0
         /\ \A e \in EdgesOf(G) : flow[e] = 0
         /\ R = G
         /\ pc = "done" => t \notin DOMAIN level)
  /\ [][(pc = "level" /\ NoPath) => pc' = "done"]_vars

C14_Witness ==
  /\ pc = "done"
  /\ NoPath
  /\ flow_value = 0
  /\ {"a", "c", "d"} \subseteq DOMAIN level
  /\ "b" \notin DOMAIN level
  /\ G.cap[<<"a", "b">>] = 0
  /\ G.cap[<<"d", "t">>] = 0

\* The capacity of e in H, 0 for an edge H does not have.
CapOr0(H, e) == IF e \in EdgesOf(H) THEN H.cap[e] ELSE 0

\* C15: the augmentation of the residual network along the path by amount
\* lowers the capacity of each path edge (u, v) by amount, raises that of
\* (v, u) by amount, creating (v, u) when absent, and leaves every other
\* edge as it was.
C15_AugmentFrame ==
  [][(pc = "augment" /\ pc' \in {"level", "done"}) =>
       LET edges == PathEdges(parent_path(parents, t, s))
           P == { edges[i] : i \in 1..Len(edges) }
           Rev == { <<e[2], e[1]>> : e \in P }
           amount == augmenting_flow(R, parent_path(parents, t, s))
       IN /\ amount > 0
          /\ EdgesOf(R') = EdgesOf(R) \cup Rev
          /\ \A e \in P : R'.cap[e] = R.cap[e] - amount
          /\ \A e \in Rev : R'.cap[e] = CapOr0(R, e) + amount
          /\ \A e \in EdgesOf(R) \ (P \cup Rev) : R'.cap[e] = R.cap[e]
          /\ \A u \in Nodes :
               SubSeq(R'.adj[u], 1, Len(R.adj[u])) = R.adj[u]
     ]_vars

C15_Witness ==
  /\ pc \in {"level", "done"}
  /\ flow_value >= 2
  /\ <<"d", "a">> \in EdgesOf(R) \ EdgesOf(G)
  /\ R.cap[<<"d", "a">>] = 0
  /\ R.cap[<<"a", "d">>] = G.cap[<<"a", "d">>]
  /\ R.cap[<<"c", "d">>] < G.cap[<<"c", "d">>]
  /\ R.cap[<<"d", "c">>] > 0

\* C16: check_valid_flow marks red exactly the flow edges whose value
\* exceeds the capacity, and marks red every node other than source and
\* target whose incoming flow differs from its outgoing flow, a node that
\* only sends flow included.
C16_CheckValidFlow ==
  pc = "checked" =>
    /\ ret.red_edges = { e \in DOMAIN flow : flow[e] > G.cap[e] }
    /\ \A v \in Nodes \ {s, t} :
         incoming_flow(G, flow, v) # outgoing_flow(G, flow, v)
           => v \in ret.red_nodes

\* The flow {(a, t): 1}: a sends flow it never receives, and nothing is red.
C16_SendOnly ==
  /\ pc = "checked"
  /\ DOMAIN flow = { <<"a", "t">> }
  /\ flow[<<"a", "t">>] = 1
  /\ incoming_flow(G, flow, "a") # outgoing_flow(G, flow, "a")
  /\ ret.red_nodes = {}
  /\ ret.red_edges = {}

\* The vertices of odd degree.
OddVertices == { v \in T.nodes : degree(T, v) % 2 = 1 }

\* Every two vertices of T are joined by a path.
Connected == \A u, v \in T.nodes : v \in component(T, {u})

\* C17: for an undirected graph and no source argument, has_eulerian_path
\* returns True if and only if the graph is connected and the number of
\* vertices of odd degree is zero or two.
C17_HasEulerianPath ==
  pc = "returned" =>
    (ret = TRUE <=> (Connected /\ Cardinality(OddVertices) \in {0, 2}))

C17_Witness ==
  /\ pc = "returned"
  /\ ret = TRUE
  /\ Cardinality(T.nodes) = MaxEulerNodes
  /\ Cardinality(OddVertices) = 2
  /\ \E v \in T.nodes : {v} \in T.edges

\* parents and level are the result of level_bfs on the current R.
LevelBuilt == pc = "augment" \/ (pc = "done" /\ t \notin DOMAIN parents)

\* The nodes that paths of at most k edges of capacity > 0 reach from S.
RECURSIVE Within(_, _, _)
Within(H, S, k) ==
  IF k = 0 THEN S
  ELSE LET W == Within(H, S, k - 1)
       IN W \cup { e[2] : e \in { x \in EdgesOf(H) : x[1] \in W /\ H.cap[x] > 0 } }

\* The number of edges on a shortest path of edges of capacity > 0 from u
\* to a node v that such a path reaches.
Dist(H, u, v) ==
  CHOOSE k \in 0..Cardinality(Nodes) :
    v \in Within(H, {u}, k) /\ (k > 0 => v \notin Within(H, {u}, k - 1))

\* C18: in the level map that level_bfs returns the source has level 0 (a
\* level is never reassigned) and every other mapped node has as level the
\* number of edges on a shortest path from the source over edges of
\* capacity > 0.
C18_Levels ==
  LevelBuilt =>
    /\ level[s] = 0
    /\ \A v \in DOMAIN level \ {s} : level[v] = Dist(R, s, v)

\* The source was given a second level over the edge a->s.
C18_SourceRelevelled ==
  /\ LevelBuilt
  /\ s \in DOMAIN parents
  /\ parents[s] = "a"
  /\ level[s] = 2
  /\ R.cap[<<"a", "s">>] > 0

\* C19: in the result of level_bfs every recorded predecessor edge
\* (parents[v], v) has capacity > 0 in R and crosses exactly one level.
C19_ParentEdges ==
  LevelBuilt =>
    \A v \in DOMAIN parents :
      /\ <<parents[v], v>> \in EdgesOf(R)
      /\ R.cap[<<parents[v], v>>] > 0
      /\ level[v] = level[parents[v]] + 1

\* The edge s->a is recorded for a, and s ends two levels above a.
C19_ParentAboveChild ==
  /\ LevelBuilt
  /\ parents["a"] = s
  /\ level["a"] = 1
  /\ level[s] = 2

\* C20: when level_bfs stops early after discovering the sink, every node
\* whose shortest positive-capacity distance from the source is at most the
\* sink's has a level, and every edge (u, v) of capacity > 0 between
\* levelled nodes with level[v] = level[u] + 1 is recorded in the level
\* graph, not only one predecessor per node.
C20_EarlyStop ==
  (pc = "levelled" /\ t \in DOMAIN parents) =>
    /\ \A v \in ReachFrom(R, {s}) :
         Dist(R, s, v) <= Dist(R, s, t) => v \in DOMAIN level
    /\ \A e \in EdgesOf(R) :
         ( /\ R.cap[e] > 0
           /\ e[1] \in DOMAIN level
           /\ e[2] \in DOMAIN level
           /\ level[e[2]] = level[e[1]] + 1 )
         => (e[2] \in DOMAIN parents /\ parents[e[2]] = e[1])

\* The sink was found from a while c was still queued: d, as far from the
\* source as the sink, has no level.
C20_UnlevelledNode ==
  /\ pc = "levelled"
  /\ t \in DOMAIN parents
  /\ level[t] = 2
  /\ "d" \in ReachFrom(R, {s})
  /\ Dist(R, s, "d") = 2
  /\ "d" \notin DOMAIN level
  /\ <<"a", "s">> \notin EdgesOf(R)

\* The nodes that a path of level-graph edges reaches from S: edges of
\* capacity > 0 in H from a node of level l to a node of level l + 1.
RECURSIVE LevelReach(_, _, _)
LevelReach(H, lev, S) ==
  LET N == S \cup { e[2] : e \in { x \in EdgesOf(H) :
                       /\ x[1] \in S
                       /\ H.cap[x] > 0
                       /\ x[1] \in DOMAIN lev
                       /\ x[2] \in DOMAIN lev
                       /\ lev[x[2]] = lev[x[1]] + 1 } }
  IN IF N = S THEN S ELSE LevelReach(H, lev, N)

\* C21: when a phase ends, the level graph fixed at its start contains no
\* source-to-sink path all of whose edges have residual capacity > 0.
C21_PhaseBlocks ==
  [][(pc = "augment" /\ pc' \in {"level", "done"}) =>
       t \notin LevelReach(R', level, {s})]_vars

\* A phase has ended after the path s-a-d-t, and s-a-b-t, a path of the same
\* level graph, still has residual capacity on every edge.
C21_PathLeft ==
  /\ pc = "level"
  /\ flow_value = 1
  /\ flow[<<"a", "d">>] = 1
  /\ level["t"] = 3
  /\ level[s] = 0
  /\ <<"a", "s">> \notin EdgesOf(G)
  /\ R.cap[<<"s", "a">>] > 0
  /\ R.cap[<<"a", "b">>] > 0
  /\ R.cap[<<"b", "t">>] > 0
  /\ t \in LevelReach(R, level, {s})

\* C22: for the path that aug_path_dfs returns, the returned amount f is the
\* minimum residual capacity over the path's edges and is > 0, so that
\* augmenting by f leaves a path edge with residual capacity exactly 0.
C22_AugPathAmount ==
  pc = "path" =>
    /\ ret.error = "none"
    /\ ret.f = augmenting_flow(R, ret.path)
    /\ ret.f > 0
    /\ \E i \in 1..(Len(ret.path) - 1) :
         R.cap[<<ret.path[i + 1], ret.path[i]>>] - ret.f = 0

\* After a first augmentation the residual network has a path of minimum
\* residual capacity 1, and aug_path_dfs returns the amount 0 for it.
C22_ZeroAmount ==
  /\ pc = "path"
  /\ flow_value > 0
  /\ ret.error = "none"
  /\ ret.path = parent_path(parents, t, s)
  /\ augmenting_flow(R, ret.path) = 1
  /\ ret.f = 0

\* C23: from the zero flow, repeating steps 3 to 6 with level_bfs,
\* aug_path_dfs and residual_graph eventually reaches a residual network
\* whose level network has no sink, with a maximum accumulated flow.
C23_NotebookLoopEnds ==
  (pc = "level") ~>
    (pc = "done" /\ t \notin DOMAIN level /\ flow_value = MinCutCapacity)

\* A step of the loop has been taken on a network of maximum flow 2, the
\* sink is in the level network and the flow is still the zero flow.
C23_NoProgress ==
  /\ pc = "level"
  /\ t \in DOMAIN level
  /\ <<"a", "s">> \in EdgesOf(R)
  /\ flow_value = 0
  /\ \A e \in EdgesOf(G) : flow[e] = 0
  /\ MinCutCapacity = 2

\* A step that is one application of residual_graph.
Applied == pc' = "residual" /\ (pc = "build" \/ ret'.calls # ret.calls)

\* C24: residual_graph(G, flow) raises ValueError whenever some flow entry
\* exceeds the capacity of its edge in G (and only then), and in every case
\* leaves the capacities and the edge set of the graph passed in unchanged.
C24_RaisesKeepsInput ==
  [][Applied =>
       /\ (ret'.error = "ValueError") <=>
            (\E e \in DOMAIN flow' : flow'[e] > R.cap[e])
       /\ G' = G
       /\ (ret'.error = "ValueError" => R' = R)]_vars

C24_Witness ==
  /\ pc = "residual"
  /\ ret.calls = 2
  /\ ret.error = "ValueError"
  /\ flow = (<<"a", "s">> :> 2)
  /\ <<"a", "s">> \notin EdgesOf(G)
  /\ R.cap[<<"a", "s">>] = 1
  /\ G.cap[<<"s", "a">>] = 2

\* C27: after any sequence of residual_graph applications from G, each
\* unordered node pair has the total capacity it has in G:
\* capacity(u, v) + capacity(v, u), an absent edge counting as 0.
C27_PairTotal ==
  pc \in {"build", "residual"} =>
    \A u, v \in {"s", "a"} :
      CapOr0(R, <<u, v>>) + CapOr0(R, <<v, u>>)
        = CapOr0(G, <<u, v>>) + CapOr0(G, <<v, u>>)

C27_Witness ==
  /\ pc = "residual"
  /\ ret.calls = 2
  /\ ret.error = "none"
  /\ <<"a", "s">> \in EdgesOf(G)
  /\ G.cap[<<"s", "a">>] = 2
  /\ G.cap[<<"a", "s">>] = 1
  /\ R.cap[<<"s", "a">>] = 0
  /\ R.cap[<<"a", "s">>] = 3

\* C28: whenever residual_graph returns without raising on a graph with
\* non-negative capacities, every capacity of the returned graph is >= 0,
\* for every flow dict it accepts.
C28_NonNegative ==
  [][(/\ Applied
      /\ ret'.error = "none"
      /\ \A e \in EdgesOf(R) : R.cap[e] >= 0)
       => \A e \in EdgesOf(R') : R'.cap[e] >= 0]_vars

C28_NegativeCapacity ==
  /\ pc = "residual"
  /\ ret.calls = 1
  /\ ret.error = "none"
  /\ flow = (<<"s", "a">> :> -1)
  /\ <<"a", "s">> \notin EdgesOf(G)
  /\ G.cap[<<"s", "a">>] = 1
  /\ R.cap[<<"s", "a">>] = 2
  /\ R.cap[<<"a", "s">>] = -1

\* C25: at all times during a run, every original edge (u, v) has
\* flow(u, v) = original_capacity(u, v) - residual_capacity(u, v), also when
\* (v, u) is an original edge too, whose residual capacity is merged with the
\* reverse residual of (u, v).
C25_FlowIsCapacityUsed ==
  InRun => \A e \in EdgesOf(G) : flow[e] = G.cap[e] - R.cap[e]

\* Flow 1 on (a, d) while (d, a) is an original edge without flow: the
\* residual capacity of (d, a) is above its original capacity.
C25_Merged ==
  /\ InRun
  /\ <<"d", "a">> \in EdgesOf(G)
  /\ flow[<<"a", "d">>] = 1
  /\ flow[<<"d", "a">>] = 0
  /\ R.cap[<<"a", "d">>] = G.cap[<<"a", "d">>] - 1
  /\ R.cap[<<"d", "a">>] = G.cap[<<"d", "a">>] + 1

\* C26: run on a connected undirected graph in which every vertex has even
\* degree, the eulerian_circuit loop terminates, and when it has terminated
\* every edge of the graph has been removed.
C26_CircuitCoversEdges ==
  (pc = "circuit") ~> (pc = "circuit done" /\ T.edges = {})

\* The loop has ended on the two triangles 1-2-3 and 2-4-5 after the walk
\* 1, 2, 3, 1: the triangle 2-4-5 is still in the graph.
C26_EdgesLeft ==
  /\ pc = "circuit done"
  /\ circuit = <<1, 2, 3, 1, 3>>
  /\ last_vertex = 1
  /\ T.edges = {{2, 4}, {4, 5}, {5, 2}}

\* C30: across consecutive phases of a run the level of the sink strictly
\* increases (whence at most n - 1 phases on n nodes), and every phase that
\* starts with the sink levelled adds a strictly positive amount to
\* flow_value.
C30_SinkLevelGrows ==
  [][/\ (pc = "level" /\ t \in DOMAIN level /\ pc' = "augment")
          => level'[t] > level[t]
     /\ (pc = "augment" /\ pc' \in {"level", "done"})
          => flow_value' > flow_value]_vars

\* The first phase has sent 1 along s-a-d-t, with the sink at level 3; the
\* second phase starts with the sink at level 3 again, reached through b.
C30_SameSinkLevel ==
  /\ pc = "augment"
  /\ flow_value = 1
  /\ flow[<<"s", "a">>] = 1 /\ flow[<<"a", "d">>] = 1 /\ flow[<<"d", "t">>] = 1
  /\ level[t] = 3
  /\ parents[t] = "b"
  /\ parents["b"] = "a"
  /\ parents["a"] = s

====
